---- MODULE Spec2Model ----
(***************************************************************************)
(* A model of SymbolFetcher (src/stock_data_fetcher/symbol_fetcher.py):    *)
(* the per-exchange symbol files, the merged symbol file and the batch     *)
(* fetch_and_save_all_symbols.                                             *)
(*                                                                         *)
(* Text.  A Python str is a sequence of atoms.  An atom is a TLA+ string   *)
(* standing for a run of characters that holds neither a line break nor a  *)
(* blank ("AAPL"), or for one such character ("\n", " ").  No atom is a    *)
(* prefix of another, so comparing atom by atom is comparing character by  *)
(* character.  The content of a file is one such sequence; a JSON file is  *)
(* the sequence of its tokens (json.dump's indentation is left out).       *)
(*                                                                         *)
(* A Python dict is the sequence of its <<key, value>> pairs, in insertion *)
(* order.  An Optional value is <<>> for None and <<v>> for the value v.   *)
(***************************************************************************)
EXTENDS Integers, Sequences, FiniteSets, TLC

VARIABLES
    files,         \* path -> Optional content: the files under data/symbols
    dirs,          \* the subdirectories of data/symbols that exist
    last,          \* the call that returned last: its arguments and outcome
    target,        \* the exchange a driver session works on
    pc,            \* position in fetch_and_save_all_symbols
    idx,           \* index in self.exchanges of the exchange in the loop
    fetched,       \* the loop's local symbols_data: what the fetch returned
    run            \* the calls fetch_and_save_all_symbols has made so far

vars == <<files, dirs, last, target, pc, idx, fetched, run>>

-----------------------------------------------------------------------------
(* Bounds of the model *)

\* The longest listing (data.rows) a response holds.
MaxRows == 2

\* The longest listing an earlier run left on disk for an exchange.
MaxPrior == 1

-----------------------------------------------------------------------------
(* Python values *)

None == <<>>
Some(v) == <<v>>

Range(s) == {s[i] : i \in 1..Len(s)}

\* Sequences over S of length at most n.
SeqsUpTo(S, n) == UNION {[1..k -> S] : k \in 0..n}

\* dict: d.keys(), k in d, d[k]
Keys(d) == {d[i][1] : i \in 1..Len(d)}
Get(d, k) == d[CHOOSE i \in 1..Len(d) : d[i][1] = k][2]

NL == "\n"
SP == " "
Whitespace == {NL, SP}

\* The code point of the first character of an atom.
Ord(a) ==
    CASE a = NL -> 10
      [] a = SP -> 32
      [] a = "AAPL" -> 65
      [] a = "GOOGL" -> 71
      [] OTHER -> 127

\* str.__lt__: lexicographic by code point.
RECURSIVE StrLess(_, _)
StrLess(s, t) ==
    IF Len(s) = 0 THEN Len(t) > 0
    ELSE IF Len(t) = 0 THEN FALSE
    ELSE IF Head(s) = Head(t) THEN StrLess(Tail(s), Tail(t))
    ELSE Ord(Head(s)) < Ord(Head(t))

\* A mutant of sorted: the set in descending order.
RECURSIVE sorted_descending(_)
sorted_descending(S) ==
    IF S = {} THEN <<>>
    ELSE LET m == CHOOSE x \in S : \A y \in S \ {x} : StrLess(y, x)
         IN  <<m>> \o sorted_descending(S \ {m})

\* sorted(S) of a set of str.
RECURSIVE sorted(_)
sorted(S) ==
    IF S = {} THEN <<>>
    ELSE LET m == CHOOSE x \in S : \A y \in S \ {x} : StrLess(x, y)
         IN  <<m>> \o sorted(S \ {m})

\* sep.join(strs)
RECURSIVE join(_, _)
join(sep, strs) ==
    IF Len(strs) = 0 THEN <<>>
    ELSE IF Len(strs) = 1 THEN strs[1]
    ELSE strs[1] \o sep \o join(sep, Tail(strs))

\* The index of the first line break of text, 0 when it has none.
FirstNL(text) ==
    LET at == {i \in 1..Len(text) : text[i] = NL}
    IN  IF at = {} THEN 0 ELSE CHOOSE i \in at : \A j \in at : i <= j

\* Iterating a text file: its lines, each with its line break.
RECURSIVE file_lines(_)
file_lines(text) ==
    IF Len(text) = 0 THEN <<>>
    ELSE LET k == FirstNL(text)
         IN  IF k = 0 THEN <<text>>
             ELSE <<SubSeq(text, 1, k)>> \o file_lines(SubSeq(text, k + 1, Len(text)))

\* str.strip(): without its leading and trailing whitespace.
RECURSIVE strip(_)
strip(s) ==
    IF Len(s) = 0 THEN s
    ELSE IF Head(s) \in Whitespace THEN strip(Tail(s))
    ELSE IF s[Len(s)] \in Whitespace THEN strip(SubSeq(s, 1, Len(s) - 1))
    ELSE s

\* str.splitlines(): the lines without their line breaks.
RECURSIVE splitlines(_)
splitlines(text) ==
    IF Len(text) = 0 THEN <<>>
    ELSE LET k == FirstNL(text)
         IN  IF k = 0 THEN <<text>>
             ELSE <<SubSeq(text, 1, k - 1)>> \o splitlines(SubSeq(text, k + 1, Len(text)))

-----------------------------------------------------------------------------
(* json.dump and json.load, on the values the program stores: a list of    *)
(* str, and a list of dicts from str to str.                               *)

QUOTE == "\""

json_string(s) == <<QUOTE>> \o s \o <<QUOTE>>

json_object(d) ==
    <<"{">>
    \o join(<<",">>, [i \in 1..Len(d) |->
                         json_string(<<d[i][1]>>) \o <<":">> \o json_string(d[i][2])])
    \o <<"}">>

\* json.dump of a list of dicts (the rows of a listing)
json_dump_rows(rows) ==
    <<"[">> \o join(<<",">>, [i \in 1..Len(rows) |-> json_object(rows[i])]) \o <<"]">>

\* json.dump of a list of str (the symbols of a listing)
json_dump_strings(strs) ==
    <<"[">> \o join(<<",">>, [i \in 1..Len(strs) |-> json_string(strs[i])]) \o <<"]">>

\* A parse: whether it succeeded, the value, and the index after it.
Parsed(v, n) == [ok |-> TRUE, val |-> v, next |-> n]
NoParse == [ok |-> FALSE, val |-> <<>>, next |-> 0]

parse_string(t, i) ==
    IF i > Len(t) \/ t[i] # QUOTE THEN NoParse
    ELSE LET closing == {j \in (i + 1)..Len(t) : t[j] = QUOTE}
         IN  IF closing = {} THEN NoParse
             ELSE LET j == CHOOSE x \in closing : \A y \in closing : x <= y
                  IN  Parsed(SubSeq(t, i + 1, j - 1), j + 1)

\* The pairs of an object from index i, after the pairs acc.
RECURSIVE parse_pairs(_, _, _)
parse_pairs(t, i, acc) ==
    LET k == parse_string(t, i)
    IN  IF ~k.ok \/ Len(k.val) # 1 \/ k.next > Len(t) \/ t[k.next] # ":" THEN NoParse
        ELSE LET v == parse_string(t, k.next + 1)
             IN  IF ~v.ok \/ v.next > Len(t) THEN NoParse
                 ELSE LET acc1 == Append(acc, <<k.val[1], v.val>>)
                      IN  IF t[v.next] = "}" THEN Parsed(acc1, v.next + 1)
                          ELSE IF t[v.next] = "," THEN parse_pairs(t, v.next + 1, acc1)
                          ELSE NoParse

parse_object(t, i) ==
    IF i + 1 > Len(t) \/ t[i] # "{" THEN NoParse
    ELSE IF t[i + 1] = "}" THEN Parsed(<<>>, i + 2)
    ELSE parse_pairs(t, i + 1, <<>>)

parse_element(t, i) ==
    IF i <= Len(t) /\ t[i] = "{" THEN parse_object(t, i) ELSE parse_string(t, i)

\* The elements of an array from index i, after the elements acc.
RECURSIVE parse_elements(_, _, _)
parse_elements(t, i, acc) ==
    LET e == parse_element(t, i)
    IN  IF ~e.ok \/ e.next > Len(t) THEN NoParse
        ELSE LET acc1 == Append(acc, e.val)
             IN  IF t[e.next] = "]" THEN Parsed(acc1, e.next + 1)
                 ELSE IF t[e.next] = "," THEN parse_elements(t, e.next + 1, acc1)
                 ELSE NoParse

\* json.load of a file's content: ok is FALSE for a JSONDecodeError.
json_load(t) ==
    IF Len(t) < 2 \/ t[1] # "[" THEN NoParse
    ELSE LET a == IF t[2] = "]" THEN Parsed(<<>>, 3) ELSE parse_elements(t, 2, <<>>)
         IN  IF a.ok /\ a.next = Len(t) + 1 THEN a ELSE NoParse

-----------------------------------------------------------------------------
(* The values the model draws its inputs from *)

\* self.exchanges
exchanges == <<"nasdaq", "nyse", "amex">>

Symbols == {<<"AAPL">>, <<"GOOGL">>}

\* A row of data.rows: a symbol and one more attribute.
Row(s) == << <<"symbol", s>>, <<"name", <<"Corp">>>> >>
\* A row without the symbol field.
BadRow == << <<"name", <<"Corp">>>> >>

Listings == SeqsUpTo({Row(s) : s \in Symbols}, MaxRows)

\* {"data": {"rows": rows}}, {"data": {"headers": ""}} and {}
Payload(rows) == << <<"data", << <<"rows", rows>> >> >> >>
NoRowsPayload == << <<"data", << <<"headers", <<>> >> >> >> >>
EmptyPayload == <<>>

Payloads ==
    {Payload(l) : l \in Listings} \cup {Payload(<<BadRow>>), NoRowsPayload, EmptyPayload}

\* What requests.get meets: a response with a JSON body, a response with an
\* error status (raise_for_status raises HTTPError), no response at all
\* (ConnectionError).  Both exceptions are RequestExceptions.
Responses ==
    {[kind |-> "ok", body |-> p] : p \in Payloads}
    \cup {[kind |-> k, body |-> EmptyPayload] : k \in {"http_error", "connection_error"}}

\* The output names of the driver scripts.
CanonicalName == "all_symbols.txt"
CustomName == "custom_combined_symbols.txt"
OutputNames == {CanonicalName, CustomName}

\* The exchange lists the program passes to the merge: the custom merge of
\* the example script, the batch's, and the empty list.
ExchangeLists == {<<>>, <<"nasdaq", "nyse">>, exchanges}

\* Where an OSError is injected in save_exchange_symbols: nowhere, in mkdir,
\* or in the open of one of its three files.
SaveFailures == {"none", "mkdir", "full", "json", "txt"}
\* ... and in concatenate_and_deduplicate_symbols.
MergeFailures == {"none", "mkdir", "open"}

\* open_func: the built-in open (the default), or a substitute whose handle
\* keeps what is written to it (mock_open in the tests).
OpenFuncs == {"open", "mock_open"}

-----------------------------------------------------------------------------
(* Storage: paths are <<directory, file name>> under self.symbols_dir *)

full_symbols_path(exchange) == <<exchange, exchange \o "_full_symbols.json">>
symbols_json_path(directory, filename_prefix) ==
    <<directory, filename_prefix \o "_symbols.json">>
symbols_txt_path(directory, filename_prefix) ==
    <<directory, filename_prefix \o "_symbols.txt">>
output_path(output_filename) == <<"all", output_filename>>

AllPaths ==
    UNION {{full_symbols_path(e), symbols_json_path(e, e), symbols_txt_path(e, e)}
               : e \in Range(exchanges)}
    \cup {output_path(n) : n \in OutputNames}

\* Path.exists, the content of an existing file, and open(path, 'w') + write
exists(fs, path) == fs[path] # None
content(fs, path) == fs[path][1]
write(fs, path, text) == [fs EXCEPT ![path] = Some(text)]

NoFiles == [p \in AllPaths |-> None]

-----------------------------------------------------------------------------
(* The operations of SymbolFetcher *)

\* A mutant of fetch_exchange_symbols: one retry after a failure.
fetch_exchange_symbols_retry(exchange, response) ==
    IF response.kind = "ok"
    THEN [result |-> Some(response.body), sent |-> <<exchange>>, raised |-> ""]
    ELSE [result |-> None, sent |-> <<exchange, exchange>>, raised |-> ""]

\* fetch_exchange_symbols: the result, the requests sent (each named by the
\* exchange of its URL), and the exception raised to the caller ("" for none).
fetch_exchange_symbols(exchange, response) ==
    IF response.kind = "ok"
    THEN [result |-> Some(response.body), sent |-> <<exchange>>, raised |-> ""]
    ELSE [result |-> None, sent |-> <<exchange>>, raised |-> ""]

\* _save_symbols_list: the files after it (its OSError is caught inside).
save_symbols_list(fs, directory, filename_prefix, symbols, fail) ==
    IF fail = "json" THEN fs
    ELSE LET fs1 == write(fs, symbols_json_path(directory, filename_prefix),
                          json_dump_strings(symbols))
         IN  IF fail = "txt" THEN fs1
             ELSE write(fs1, symbols_txt_path(directory, filename_prefix),
                        join(<<NL>>, symbols) \o <<NL>>)

HasRows(symbols_data) ==
    /\ "data" \in Keys(symbols_data)
    /\ "rows" \in Keys(Get(symbols_data, "data"))

\* symbols_data['data']['rows']
RowsOf(symbols_data) == Get(Get(symbols_data, "data"), "rows")

\* A mutant of save_exchange_symbols: the full listing is written last, and
\* only when the listing has symbols.
save_exchange_symbols_full_last(fs, ds, symbols_data, exchange, fail) ==
    IF fail = "mkdir" THEN [files |-> fs, dirs |-> ds, raised |-> "OSError"]
    ELSE IF fail = "full" THEN [files |-> fs, dirs |-> ds \cup {exchange}, raised |-> ""]
    ELSE IF ~HasRows(symbols_data)
    THEN [files |-> fs, dirs |-> ds \cup {exchange}, raised |-> "KeyError"]
    ELSE LET rows == Get(Get(symbols_data, "data"), "rows")
         IN  IF \E i \in 1..Len(rows) : "symbol" \notin Keys(rows[i])
             THEN [files |-> fs, dirs |-> ds \cup {exchange}, raised |-> "KeyError"]
             ELSE LET symbols == [i \in 1..Len(rows) |-> Get(rows[i], "symbol")]
                  IN  [files |-> IF Len(symbols) > 0
                                 THEN write(save_symbols_list(fs, exchange, exchange,
                                                              symbols, fail),
                                            full_symbols_path(exchange),
                                            json_dump_rows(rows))
                                 ELSE fs,
                       dirs |-> ds \cup {exchange}, raised |-> ""]

\* save_exchange_symbols: the files and directories after it, and the
\* exception it raised to its caller ("" for none).
\*   line 66: mkdir is outside the try.
\*   line 69: the open truncates the file before line 70 evaluates
\*            symbols_data['data']['rows'], whose KeyError is not caught.
\*   line 72: row['symbol'] raises KeyError after the full file is written.
save_exchange_symbols(fs, ds, symbols_data, exchange, fail) ==
    IF fail = "mkdir" THEN [files |-> fs, dirs |-> ds, raised |-> "OSError"]
    ELSE IF fail = "full" THEN [files |-> fs, dirs |-> ds \cup {exchange}, raised |-> ""]
    ELSE IF ~HasRows(symbols_data)
    THEN [files |-> write(fs, full_symbols_path(exchange), <<>>),
          dirs |-> ds \cup {exchange}, raised |-> "KeyError"]
    ELSE LET rows == Get(Get(symbols_data, "data"), "rows")
             fs1 == write(fs, full_symbols_path(exchange), json_dump_rows(rows))
         IN  IF \E i \in 1..Len(rows) : "symbol" \notin Keys(rows[i])
             THEN [files |-> fs1, dirs |-> ds \cup {exchange}, raised |-> "KeyError"]
             ELSE LET symbols == [i \in 1..Len(rows) |-> Get(rows[i], "symbol")]
                  IN  [files |-> IF Len(symbols) > 0
                                 THEN save_symbols_list(fs1, exchange, exchange,
                                                        symbols, fail)
                                 ELSE fs1,
                       dirs |-> ds \cup {exchange}, raised |-> ""]

\* A mutant of load_exchange_symbols: it reads the symbol list file.
load_exchange_symbols_list_file(fs, exchange) ==
    LET file_path == symbols_json_path(exchange, exchange)
    IN  IF exists(fs, file_path)
        THEN LET p == json_load(content(fs, file_path))
             IN  IF p.ok THEN Some(p.val) ELSE None
        ELSE None

\* load_exchange_symbols: the rows of the full file, or None.
load_exchange_symbols(fs, exchange) ==
    LET file_path == full_symbols_path(exchange)
    IN  IF exists(fs, file_path)
        THEN LET p == json_load(content(fs, file_path))
             IN  IF p.ok THEN Some(p.val) ELSE None
        ELSE None

\* The loop of lines 110-119: all_symbols after the exchanges of the list.
RECURSIVE read_symbols(_, _, _)
read_symbols(fs, exchange_list, all_symbols) ==
    IF Len(exchange_list) = 0 THEN all_symbols
    ELSE LET exchange == Head(exchange_list)
             symbols_file == symbols_txt_path(exchange, exchange)
         IN  read_symbols(fs, Tail(exchange_list),
                 IF exists(fs, symbols_file)
                 THEN all_symbols
                      \cup {strip(l) : l \in Range(file_lines(content(fs, symbols_file)))}
                 ELSE all_symbols)

\* The calls of symbols_file.open('r') in the loop of lines 110-119, in order.
RECURSIVE read_opens(_, _)
read_opens(fs, exchange_list) ==
    IF Len(exchange_list) = 0 THEN <<>>
    ELSE LET exchange == Head(exchange_list)
             symbols_file == symbols_txt_path(exchange, exchange)
         IN  (IF exists(fs, symbols_file)
              THEN <<[via |-> "Path.open", path |-> symbols_file, mode |-> "r"]>>
              ELSE <<>>)
             \o read_opens(fs, Tail(exchange_list))

\* The text of line 125.
merged_text(all_symbols) == join(<<NL>>, sorted(all_symbols)) \o <<NL>>

\* What a call of concatenate_and_deduplicate_symbols leaves: the files and
\* directories, the exception it raised, the files it opened and the text
\* it wrote to the handle open_func returned.
MergeResult(fs, ds, raised, opens, handle) ==
    [files |-> fs, dirs |-> ds, raised |-> raised, opens |-> opens, handle |-> handle]

\* A mutant of concatenate_and_deduplicate_symbols: nothing is written when
\* no symbol was read.
concatenate_skip_empty(fs, ds, exchange_list, output_filename, open_func, fail) ==
    LET output_file == output_path(output_filename)
        all_symbols == read_symbols(fs, exchange_list, {})
        reads == read_opens(fs, exchange_list)
        opens == Append(reads, [via |-> open_func, path |-> output_file, mode |-> "w"])
    IN  IF fail = "mkdir" THEN MergeResult(fs, ds, "OSError", reads, None)
        ELSE IF all_symbols = {} THEN MergeResult(fs, ds \cup {"all"}, "", reads, None)
        ELSE IF fail = "open" THEN MergeResult(fs, ds \cup {"all"}, "", opens, None)
        ELSE MergeResult(IF open_func = "open"
                         THEN write(fs, output_file, merged_text(all_symbols))
                         ELSE fs,
                         ds \cup {"all"}, "", opens, Some(merged_text(all_symbols)))

\* A mutant of concatenate_and_deduplicate_symbols: the output file is
\* opened in append mode.
concatenate_append(fs, ds, exchange_list, output_filename, open_func, fail) ==
    LET output_file == output_path(output_filename)
        all_symbols == read_symbols(fs, exchange_list, {})
        reads == read_opens(fs, exchange_list)
        opens == Append(reads, [via |-> open_func, path |-> output_file, mode |-> "a"])
        old == IF exists(fs, output_file) THEN content(fs, output_file) ELSE <<>>
    IN  IF fail = "mkdir" THEN MergeResult(fs, ds, "OSError", reads, None)
        ELSE IF fail = "open" THEN MergeResult(fs, ds \cup {"all"}, "", opens, None)
        ELSE MergeResult(IF open_func = "open"
                         THEN write(fs, output_file, old \o merged_text(all_symbols))
                         ELSE fs,
                         ds \cup {"all"}, "", opens, Some(merged_text(all_symbols)))

\* A mutant of concatenate_and_deduplicate_symbols: the output is opened
\* with output_file.open('w'), whatever open_func was supplied.
concatenate_path_open(fs, ds, exchange_list, output_filename, open_func, fail) ==
    LET output_file == output_path(output_filename)
        all_symbols == read_symbols(fs, exchange_list, {})
        reads == read_opens(fs, exchange_list)
        opens == Append(reads, [via |-> "Path.open", path |-> output_file, mode |-> "w"])
    IN  IF fail = "mkdir" THEN MergeResult(fs, ds, "OSError", reads, None)
        ELSE IF fail = "open" THEN MergeResult(fs, ds \cup {"all"}, "", opens, None)
        ELSE MergeResult(write(fs, output_file, merged_text(all_symbols)),
                         ds \cup {"all"}, "", opens, None)

\* concatenate_and_deduplicate_symbols (line 122: mkdir is outside the try).
\* open_func "open" is the built-in open, which writes the storage; any
\* other open_func returns a handle the storage does not back.
concatenate_and_deduplicate_symbols(fs, ds, exchange_list, output_filename, open_func, fail) ==
    LET output_file == output_path(output_filename)
        all_symbols == read_symbols(fs, exchange_list, {})
        reads == read_opens(fs, exchange_list)
        opens == Append(reads, [via |-> open_func, path |-> output_file, mode |-> "w"])
    IN  IF fail = "mkdir" THEN MergeResult(fs, ds, "OSError", reads, None)
        ELSE IF fail = "open" THEN MergeResult(fs, ds \cup {"all"}, "", opens, None)
        ELSE MergeResult(IF open_func = "open"
                         THEN write(fs, output_file, merged_text(all_symbols))
                         ELSE fs,
                         ds \cup {"all"}, "", opens, Some(merged_text(all_symbols)))

\* A mutant of load_all_symbols: it reads the custom output when there is one.
load_all_symbols_custom(fs) ==
    LET output_file == IF exists(fs, output_path(CustomName))
                       THEN output_path(CustomName)
                       ELSE output_path(CanonicalName)
    IN  IF exists(fs, output_file)
        THEN Some(splitlines(content(fs, output_file)))
        ELSE None

\* load_all_symbols: the lines of the canonical merged file, or None.
load_all_symbols(fs) ==
    LET output_file == output_path(CanonicalName)
    IN  IF exists(fs, output_file)
        THEN Some(splitlines(content(fs, output_file)))
        ELSE None

-----------------------------------------------------------------------------
(* Storage before the modelled calls: fresh after construction, or as an  *)
(* earlier run of fetch_and_save_all_symbols left it, in which the fetch  *)
(* of each exchange failed or returned a listing of 1..MaxPrior rows.     *)

PriorListings == {l \in SeqsUpTo({Row(s) : s \in Symbols}, MaxPrior) : Len(l) > 0}

Priors == [Range(exchanges) -> {None} \cup {Some(l) : l \in PriorListings}]

\* The loop of lines 137-140 from exchange i on, the results of the fetches given.
RECURSIVE earlier_saves(_, _, _)
earlier_saves(st, i, prior) ==
    IF i > Len(exchanges) THEN st
    ELSE earlier_saves(
             IF prior[exchanges[i]] = None THEN st
             ELSE save_exchange_symbols(st.files, st.dirs,
                                        Payload(prior[exchanges[i]][1]),
                                        exchanges[i], "none"),
             i + 1, prior)

EarlierRun(prior) ==
    LET st == earlier_saves([files |-> NoFiles, dirs |-> {}, raised |-> ""], 1, prior)
    IN  concatenate_and_deduplicate_symbols(st.files, st.dirs, exchanges,
                                            CanonicalName, "open", "none")

InitialStorages ==
    {[files |-> NoFiles, dirs |-> {}]}
    \cup {[files |-> EarlierRun(prior).files, dirs |-> EarlierRun(prior).dirs]
              : prior \in Priors}

\* A listing whose symbol arrived with a leading blank.
PaddedListings == {<<Row(<<SP, "AAPL">>)>>}

MergePriors ==
    [Range(exchanges) -> {None} \cup {Some(l) : l \in PriorListings \cup PaddedListings}]

\* The storages a merge may find: those above, and those an earlier run left
\* when a listing was padded.
MergeStorages ==
    {[files |-> NoFiles, dirs |-> {}]}
    \cup {[files |-> EarlierRun(prior).files, dirs |-> EarlierRun(prior).dirs]
              : prior \in MergePriors}

NoCall == [op |-> "none", clean |-> TRUE]

-----------------------------------------------------------------------------
(* A driver session on one exchange: save and load called in any order     *)
(* (src/scripts/symbol_fetcher_examples.py, lines 10-16).  last keeps of a *)
(* save where its OSError was injected, what it raised and, when the       *)
(* payload had data.rows and no failure was injected, the rows it was      *)
(* given; clean tells whether every call so far saved a well-formed        *)
(* listing without failure.                                                *)

SessionInit ==
    /\ files = NoFiles
    /\ dirs = {}
    /\ last = NoCall
    /\ target \in Range(exchanges)
    /\ pc = "idle"
    /\ idx = 0
    /\ fetched = None
    /\ run = <<>>

\* Whether a call persists a listing whose rows all have a symbol, with no
\* storage failure.
WellFormed(symbols_data) ==
    /\ HasRows(symbols_data)
    /\ \A row \in Range(Get(Get(symbols_data, "data"), "rows")) : "symbol" \in Keys(row)

Save(symbols_data, fail) ==
    LET r == save_exchange_symbols(files, dirs, symbols_data, target, fail)
    IN  /\ files' = r.files
        /\ dirs' = r.dirs
        /\ last' = [op |-> "save", fail |-> fail, raised |-> r.raised,
                    saved |-> IF fail = "none" /\ HasRows(symbols_data)
                              THEN Some(RowsOf(symbols_data)) ELSE None,
                    clean |-> last.clean /\ fail = "none" /\ WellFormed(symbols_data)]
        /\ UNCHANGED <<target, pc, idx, fetched, run>>

Load ==
    /\ last' = [op |-> "load", result |-> load_exchange_symbols(files, target),
                clean |-> last.clean]
    /\ UNCHANGED <<files, dirs, target, pc, idx, fetched, run>>

SessionNext ==
    \/ \E symbols_data \in Payloads, fail \in SaveFailures : Save(symbols_data, fail)
    \/ Load

SessionSpec == SessionInit /\ [][SessionNext]_vars

-----------------------------------------------------------------------------
(* Merges over the storage an earlier run left: the merge and the load of  *)
(* the merged file called in any order.                                    *)

MergeInit ==
    /\ \E st \in MergeStorages : files = st.files /\ dirs = st.dirs
    /\ last = NoCall
    /\ target = exchanges[1]
    /\ pc = "idle"
    /\ idx = 0
    /\ fetched = None
    /\ run = <<>>

\* again: this call repeats the call before it, and both wrote their output.
\* before: the output file as the call found it; canonical_before: the
\* canonical file as the call found it.
Merge(exchange_list, output_filename, open_func, fail) ==
    LET r == concatenate_and_deduplicate_symbols(files, dirs, exchange_list,
                                                 output_filename, open_func, fail)
    IN  /\ files' = r.files
        /\ dirs' = r.dirs
        /\ last' = [op |-> "merge", exchange_list |-> exchange_list,
                    output_filename |-> output_filename, fail |-> fail,
                    open_func |-> open_func,
                    raised |-> r.raised,
                    opens |-> r.opens,
                    handle |-> r.handle,
                    before |-> files[output_path(output_filename)],
                    canonical_before |-> files[output_path(CanonicalName)],
                    again |-> /\ last.op = "merge"
                              /\ last.fail = "none"
                              /\ last.open_func = "open"
                              /\ fail = "none"
                              /\ open_func = "open"
                              /\ last.exchange_list = exchange_list
                              /\ last.output_filename = output_filename,
                    clean |-> last.clean]
        /\ UNCHANGED <<target, pc, idx, fetched, run>>

\* after: the merge this call follows, if it follows one.
LoadAll ==
    /\ last' = [op |-> "load_all", result |-> load_all_symbols(files),
                after |-> IF last.op = "merge"
                          THEN Some([exchange_list |-> last.exchange_list,
                                     output_filename |-> last.output_filename,
                                     open_func |-> last.open_func,
                                     fail |-> last.fail,
                                     canonical_before |-> last.canonical_before])
                          ELSE None,
                clean |-> last.clean]
    /\ UNCHANGED <<files, dirs, target, pc, idx, fetched, run>>

\* The driver calls the merge with the default open_func.
MergeNext ==
    \/ \E exchange_list \in ExchangeLists, output_filename \in OutputNames,
          fail \in MergeFailures :
           Merge(exchange_list, output_filename, "open", fail)
    \/ LoadAll

MergeSpec == MergeInit /\ [][MergeNext]_vars

-----------------------------------------------------------------------------
(* One merge with the default open_func or a substitute, the first call on *)
(* the fetcher, as the test of the merge makes it                           *)
(* (src/tests/test_symbol_fetcher.py, lines 44-59), over any storage.       *)

InjectInit == MergeInit

InjectNext ==
    \E exchange_list \in ExchangeLists, output_filename \in OutputNames,
       open_func \in OpenFuncs, fail \in MergeFailures :
        /\ last.op = "none"
        /\ Merge(exchange_list, output_filename, open_func, fail)

InjectSpec == InjectInit /\ [][InjectNext]_vars

-----------------------------------------------------------------------------
(* One run of fetch_and_save_all_symbols over the storage an earlier run   *)
(* left, the storage working: what varies is what each fetch meets.        *)

BatchInit ==
    /\ \E st \in InitialStorages : files = st.files /\ dirs = st.dirs
    /\ last = NoCall
    /\ target = exchanges[1]
    /\ pc = "start"
    /\ idx = 0
    /\ fetched = None
    /\ run = <<>>

\* if symbols_data: neither None nor an empty dict
Truthy(optional) == optional # None /\ Len(optional[1]) > 0

\* Line 137: the next exchange of the loop, or the merge after the last.
Advance(i) ==
    IF i < Len(exchanges)
    THEN pc' = "fetch" /\ idx' = i + 1
    ELSE pc' = "merge" /\ idx' = i

BatchStart ==
    /\ pc = "start"
    /\ Advance(0)
    /\ UNCHANGED <<files, dirs, last, target, fetched, run>>

\* Line 138
BatchFetch(response) ==
    /\ pc = "fetch"
    /\ LET r == fetch_exchange_symbols(exchanges[idx], response)
       IN  /\ fetched' = r.result
           /\ run' = Append(run, [call |-> "fetch", exchange |-> exchanges[idx],
                                  response |-> response, result |-> r.result,
                                  sent |-> r.sent, raised |-> r.raised])
           /\ IF Truthy(r.result)
              THEN pc' = "save" /\ idx' = idx
              ELSE Advance(idx)
    /\ UNCHANGED <<files, dirs, last, target>>

\* Line 140
BatchSave ==
    /\ pc = "save"
    /\ LET r == save_exchange_symbols(files, dirs, fetched[1], exchanges[idx], "none")
       IN  /\ files' = r.files
           /\ dirs' = r.dirs
           /\ run' = Append(run, [call |-> "save", exchange |-> exchanges[idx],
                                  result |-> fetched])
           /\ IF r.raised = ""
              THEN Advance(idx)
              ELSE pc' = "raised" /\ idx' = idx
    /\ UNCHANGED <<last, target, fetched>>

\* Line 141
\* A mutant of BatchMerge: the merge is over the exchanges saved in this run.
BatchMergeSaved ==
    /\ pc = "merge"
    /\ LET saved == SelectSeq(exchanges,
                     LAMBDA e : \E k \in 1..Len(run) :
                                    run[k].call = "save" /\ run[k].exchange = e)
           r == concatenate_and_deduplicate_symbols(files, dirs, saved,
                                                    CanonicalName, "open", "none")
       IN  /\ files' = r.files
           /\ dirs' = r.dirs
           /\ run' = Append(run, [call |-> "merge", exchange_list |-> exchanges,
                                  output_filename |-> CanonicalName])
           /\ pc' = IF r.raised = "" THEN "done" ELSE "raised"
    /\ UNCHANGED <<last, target, idx, fetched>>

\* Line 141.
BatchMerge ==
    /\ pc = "merge"
    /\ LET r == concatenate_and_deduplicate_symbols(files, dirs, exchanges,
                                                    CanonicalName, "open", "none")
       IN  /\ files' = r.files
           /\ dirs' = r.dirs
           /\ run' = Append(run, [call |-> "merge", exchange_list |-> exchanges,
                                  output_filename |-> CanonicalName])
           /\ pc' = IF r.raised = "" THEN "done" ELSE "raised"
    /\ UNCHANGED <<last, target, idx, fetched>>

BatchNext ==
    \/ BatchStart
    \/ \E response \in Responses : BatchFetch(response)
    \/ BatchSave
    \/ BatchMerge

BatchSpec == BatchInit /\ [][BatchNext]_vars

-----------------------------------------------------------------------------
(* What the claims are stated with *)

\* The symbol fields of rows that all have one.
SymbolFields(rows) == [i \in 1..Len(rows) |-> Get(rows[i], "symbol")]

\* A text file that holds the strings strs one per line, each line ended.
RECURSIVE OnePerLine(_)
OnePerLine(strs) ==
    IF Len(strs) = 0 THEN <<>> ELSE strs[1] \o <<NL>> \o OnePerLine(Tail(strs))

\* Strictly ascending: in lexicographic order, no string twice.
Ascending(strs) == \A i, j \in 1..Len(strs) : i < j => StrLess(strs[i], strs[j])

-----------------------------------------------------------------------------
(* Claims on save_exchange_symbols and load_exchange_symbols (SessionSpec) *)

\* C3: after any sequence of saves of well-formed listings without storage
\* failure, whenever an exchange's full file and line file both exist, the
\* lines of the line file are the symbol fields of the rows stored in the
\* full file, in the same order.
C3_LineFileMatchesFullFile ==
    last.clean =>
        \A e \in Range(exchanges) :
            (exists(files, full_symbols_path(e)) /\ exists(files, symbols_txt_path(e, e)))
            => LET p == json_load(content(files, full_symbols_path(e)))
               IN  /\ p.ok
                   /\ \A row \in Range(p.val) : "symbol" \in Keys(row)
                   /\ splitlines(content(files, symbols_txt_path(e, e)))
                          = SymbolFields(p.val)

\* C4: one save of a listing whose rows all have a symbol, zero rows
\* included, with no storage failure, leaves <exchange>_symbols.txt holding
\* the symbol fields one per line with a trailing newline, and
\* <exchange>_symbols.json holding them as a list, in the order of the rows.
SymbolFilesHold(fs, exchange, symbols) ==
    /\ exists(fs, symbols_txt_path(exchange, exchange))
    /\ content(fs, symbols_txt_path(exchange, exchange)) = join(<<NL>>, symbols) \o <<NL>>
    /\ exists(fs, symbols_json_path(exchange, exchange))
    /\ json_load(content(fs, symbols_json_path(exchange, exchange))).ok
    /\ json_load(content(fs, symbols_json_path(exchange, exchange))).val = symbols

C4_SaveWritesSymbolFiles ==
    (/\ last.op = "save"
     /\ last.saved # None
     /\ \A row \in Range(last.saved[1]) : "symbol" \in Keys(row))
    => SymbolFilesHold(files, target, SymbolFields(last.saved[1]))

\* C5: save_exchange_symbols never raises to its caller.
C5_SaveNeverRaises == last.op = "save" => last.raised = ""

\* C6: after a save of a payload that has data.rows, with no storage failure,
\* load_exchange_symbols of the same exchange returns the rows of data.rows,
\* in the same order.
C6_LoadReturnsSavedRows ==
    (last.op = "save" /\ last.saved # None)
    => load_exchange_symbols(files, target) = last.saved

\* C6 witness: a two-row listing, not in sorted order, was saved and loads back.
C6_Witness ==
    /\ last.op = "save"
    /\ last.fail = "none"
    /\ last.raised = ""
    /\ last.saved = Some(<<Row(<<"GOOGL">>), Row(<<"AAPL">>)>>)
    /\ load_exchange_symbols(files, target) = last.saved

-----------------------------------------------------------------------------
(* Claims on concatenate_and_deduplicate_symbols (MergeSpec) *)

\* The symbols in the line files that exist for the exchanges of a list: the
\* lines, without the blanks around them.
ReadSymbols(fs, exchange_list) ==
    UNION {{strip(l) : l \in Range(splitlines(content(fs, symbols_txt_path(e, e))))}
               : e \in {x \in Range(exchange_list) : exists(fs, symbols_txt_path(x, x))}}

\* The output file of the last merge.
LastOutput == output_path(last.output_filename)
MergeWrote == last.op = "merge" /\ last.fail = "none" /\ last.open_func = "open"

\* The output file holds exactly the strings of S, each once, ascending, one
\* per line.
HoldsSorted(fs, path, S) ==
    /\ exists(fs, path)
    /\ LET lines == splitlines(content(fs, path))
       IN  /\ content(fs, path) = OnePerLine(lines)
           /\ Ascending(lines)
           /\ Range(lines) = S

\* C2 as claimed: for every exchange list and all line files, the merge
\* writes to symbols/all/<output name> exactly the symbols of the line files
\* that exist for the requested exchanges, each once, ascending, one per line.
C2_OutputIsSortedUnion ==
    MergeWrote => HoldsSorted(files, LastOutput, ReadSymbols(files, last.exchange_list))

\* C2 as amended: the same when at least one symbol is read; when none is
\* read the output is one empty line.  An absent line file contributes
\* nothing and the call does not raise.
C2_OutputIsSortedUnionOrEmptyLine ==
    MergeWrote =>
        /\ last.raised = ""
        /\ IF ReadSymbols(files, last.exchange_list) # {}
           THEN HoldsSorted(files, LastOutput, ReadSymbols(files, last.exchange_list))
           ELSE exists(files, LastOutput) /\ content(files, LastOutput) = <<NL>>

\* C2 witness: a merge of the three known exchanges, one of them without a
\* line file, wrote two distinct symbols.
C2_Witness ==
    /\ MergeWrote
    /\ last.exchange_list = exchanges
    /\ \E e \in Range(exchanges) : ~exists(files, symbols_txt_path(e, e))
    /\ Cardinality(ReadSymbols(files, exchanges)) = 2
    /\ content(files, LastOutput) = <<"AAPL", NL, "GOOGL", NL>>

\* C7: a merge that repeats the merge before it (same exchange list, same
\* output name, both writing) leaves the output file as the first left it.
C7_SecondMergeSameOutput ==
    (last.op = "merge" /\ last.again) => files[LastOutput] = last.before

\* C7 witness: the second of two such merges has run, over two symbols.
C7_Witness ==
    /\ last.op = "merge"
    /\ last.again
    /\ Cardinality(ReadSymbols(files, last.exchange_list)) = 2
    /\ files[LastOutput] = last.before

\* C10: a merge that reads no symbol returns normally and leaves an output
\* file that is one newline.
C10_EmptyMergeWritesOneNewline ==
    (MergeWrote /\ ReadSymbols(files, last.exchange_list) = {}) =>
        /\ last.raised = ""
        /\ exists(files, LastOutput)
        /\ content(files, LastOutput) = <<NL>>

\* C10 witness: the three known exchanges were requested, none has a line
\* file, and the custom output is one newline.
C10_Witness ==
    /\ MergeWrote
    /\ last.exchange_list = exchanges
    /\ last.output_filename = CustomName
    /\ \A e \in Range(exchanges) : ~exists(files, symbols_txt_path(e, e))
    /\ content(files, LastOutput) = <<NL>>

-----------------------------------------------------------------------------
(* Claims on fetch_and_save_all_symbols and fetch_exchange_symbols         *)
(* (BatchSpec)                                                             *)

Over == pc \in {"done", "raised"}
Calls(name) == {k \in 1..Len(run) : run[k].call = name}

\* The fetches of the run that returned a listing whose rows all have a symbol.
ListingFetches ==
    {k \in Calls("fetch") : run[k].result # None /\ WellFormed(run[k].result[1])}

\* C1: when the run is over and the fetch of an exchange failed, every
\* exchange whose fetch returned a listing has its three files holding that
\* listing, and the run has written the canonical merged file, which holds
\* every symbol of those listings.
C1_OtherExchangesPersistedAndMerged ==
    (Over /\ \E k \in Calls("fetch") : run[k].result = None) =>
        /\ \A k \in ListingFetches :
               LET rows == RowsOf(run[k].result[1])
               IN  /\ load_exchange_symbols(files, run[k].exchange) = Some(rows)
                   /\ SymbolFilesHold(files, run[k].exchange, SymbolFields(rows))
        /\ Calls("merge") # {}
        /\ exists(files, output_path(CanonicalName))
        /\ \A k \in ListingFetches :
               Range(SymbolFields(RowsOf(run[k].result[1])))
                   \subseteq Range(splitlines(content(files, output_path(CanonicalName))))

C9_CallOrder ==
    /\ \A k \in Calls("fetch") :
           run[k].exchange = exchanges[Cardinality({j \in Calls("fetch") : j <= k})]
    /\ \A k \in Calls("save") :
           /\ k > 1
           /\ run[k - 1].call = "fetch"
           /\ run[k - 1].exchange = run[k].exchange
           /\ run[k - 1].result # None
    /\ \A k \in Calls("merge") :
           /\ k = Len(run)
           /\ Cardinality(Calls("fetch")) = Len(exchanges)
           /\ run[k].exchange_list = exchanges
           /\ run[k].output_filename = CanonicalName
    /\ Over => Cardinality(Calls("merge")) = 1

-----------------------------------------------------------------------------
(* Claims on the open_func of the merge and on load_all_symbols after a     *)
(* merge (MergeSpec), and on the merged file after a run (BatchSpec)        *)

\* The text c holds the strings of S, each once, ascending, one per line; one
\* empty line when S is empty.
MergedText(c, S) ==
    IF S = {} THEN c = <<NL>>
    ELSE /\ c = OnePerLine(splitlines(c))
         /\ Ascending(splitlines(c))
         /\ Range(splitlines(c)) = S

\* The opens of the last merge made through its open_func.
ThroughOpenFunc == SelectSeq(last.opens, LAMBDA o : o.via = last.open_func)

LinesOrNone(file) == IF file = None THEN None ELSE Some(splitlines(file[1]))

C14_LoadReturnsMergedSet ==
    (/\ last.op = "load_all"
     /\ last.after # None
     /\ last.after[1].output_filename = CanonicalName
     /\ last.after[1].fail = "none"
     /\ last.after[1].open_func = "open") =>
        /\ last.result # None
        /\ Len(last.result[1]) =
               Cardinality(ReadSymbols(files, last.after[1].exchange_list))
        /\ Ascending(last.result[1])
        /\ Range(last.result[1]) = ReadSymbols(files, last.after[1].exchange_list)

\* The fetches of the run that failed or returned an empty body or zero rows.
FetchesWithoutRows ==
    {k \in Calls("fetch") :
         \/ run[k].result = None
         \/ run[k].result[1] = EmptyPayload
         \/ HasRows(run[k].result[1]) /\ RowsOf(run[k].result[1]) = <<>>}

====
